---- MODULE Spec2Model ----
(***************************************************************************)
(* Model of studio/scraper/scraper_service.py: the MedicalScraper session  *)
(* state (browser, context, page, logged_in_* flags), the login and        *)
(* authenticated-search handlers, the provider searches and the            *)
(* /search/aggregate handler.                                              *)
(*                                                                         *)
(* Strings produced by the code (citation ids, error messages, content)    *)
(* are TLA+ strings built with \o as the code builds them with f-strings.  *)
(* An upstream reply is a record drawn from a small set; a raised Python   *)
(* exception is a record [type, status_code, detail].                      *)
(*                                                                         *)
(* aggregate_search is modelled step by step, one action per stretch of    *)
(* code between two suspension points (the awaited HTTP replies).  A login *)
(* or an authenticated search is one action: the whole call, with the      *)
(* outcome of its browser start-up and page loads drawn from small sets.   *)
(* "last" holds the most recent call and what it returned; a new           *)
(* aggregate request overwrites it.                                        *)
(***************************************************************************)
EXTENDS Integers, Sequences, FiniteSets, TLC

VARIABLES
    keys,                \* providers whose API key is set in the environment
    playwright,          \* PLAYWRIGHT_AVAILABLE
    browser,             \* self.browser is not None
    context,             \* self.context is not None
    page,                \* self.page is not None
    logged_in_uptodate,  \* self.logged_in_uptodate
    logged_in_mksap,     \* self.logged_in_mksap
    last,                \* the most recent login / authenticated search call and what it returned
    agg,                 \* the /search/aggregate request in flight
    displayed,               \* the document self.page displays
    inflight             \* the login / search coroutines suspended on the page

vars == <<keys, playwright, browser, context, page,
          logged_in_uptodate, logged_in_mksap, last, agg, displayed, inflight>>

concurrent == <<displayed, inflight>>

session == <<browser, context, page, logged_in_uptodate, logged_in_mksap>>

(***************************************************************************)
(* Bounds of the model                                                     *)
(***************************************************************************)
MaxIds == 2        \* longest esearch idlist
MaxResults == 1    \* most results / citations in one upstream reply
MaxHits == 2       \* most hits on an authenticated search page

(***************************************************************************)
(* Providers, targets and upstream replies                                 *)
(***************************************************************************)
KeyProviders == {"perplexity", "exa", "tavily"}
Targets == {"uptodate", "mksap"}
AllProviders == {"pubmed"} \cup KeyProviders \cup Targets

PMIDs == {"1", "2"}
Statuses == {200, 429, 500}

Divider == "\n\n---\n\n"

RECURSIVE SeqsUpTo(_, _)
SeqsUpTo(S, n) ==
    IF n = 0 THEN {<<>>}
    ELSE LET shorter == SeqsUpTo(S, n - 1)
         IN  shorter \cup {Append(s, x) : s \in {t \in shorter : Len(t) = n - 1}, x \in S}

RECURSIVE Join(_, _)
Join(parts, sep) ==
    IF parts = <<>> THEN ""
    ELSE IF Len(parts) = 1 THEN parts[1]
    ELSE parts[1] \o sep \o Join(Tail(parts), sep)

RECURSIVE Concat(_)
Concat(seqs) ==
    IF seqs = <<>> THEN <<>> ELSE Head(seqs) \o Concat(Tail(seqs))

\* fastapi.HTTPException(status_code, detail)
HTTPException(status_code, detail) ==
    [type |-> "HTTPException", status_code |-> status_code, detail |-> detail]

\* any other Exception subclass raised by the interpreter or a library
OtherException(type, detail) ==
    [type |-> type, detail |-> detail]

\* str(e)
StrExc(e) ==
    IF e.type = "HTTPException"
    THEN ToString(e.status_code) \o ": " \o e.detail
    ELSE e.detail

Raise(e) == [ok |-> FALSE, exc |-> e]
Return(v) == [ok |-> TRUE, value |-> v]

SearchResponse(provider, content, citations) ==
    [provider |-> provider, content |-> content, citations |-> citations]

\* of a Citation the model keeps the id (and the url where a search reads it back)
Citation(id) == [id |-> id]

(***************************************************************************)
(* Upstream replies: what the network hands back to one request            *)
(***************************************************************************)
Transport == [kind |-> "transport", msg |-> "ConnectError"]
Http(status, json, body) == [kind |-> "http", status |-> status, json |-> json, body |-> body]

PerplexityBodies ==
    [has_choices : BOOLEAN,
     choices : SeqsUpTo({"", "answer"}, 1),
     citations : SeqsUpTo({"https://nejm.org/a"}, MaxResults)]

ExaItems == {[title |-> "Trial", url |-> "https://nejm.org/x", text |-> "text"]}
ExaBodies == [results : SeqsUpTo(ExaItems, MaxResults)]

TavilyItems == {[title |-> "Guideline", url |-> "https://cochrane.org/y", content |-> "snip"]}
TavilyBodies == [answer : {"", "answer"}, results : SeqsUpTo(TavilyItems, MaxResults)]

EsearchBodies == [idlist : SeqsUpTo(PMIDs, MaxIds)]
EsummaryBodies == [result : SUBSET PMIDs]

NoBody == [none |-> TRUE]

HttpReplies(bodies) ==
    {Transport}
        \cup {Http(s, TRUE, b) : s \in {200}, b \in bodies}
        \cup {Http(s, FALSE, NoBody) : s \in Statuses \ {200}}

\* PubMed's replies are read with .json() whatever the status: a non-success
\* reply may carry a JSON body (an error object or a result) or none
PubmedReplies(bodies) ==
    {Transport}
        \cup {Http(s, TRUE, b) : s \in Statuses, b \in bodies}
        \cup {Http(s, FALSE, NoBody) : s \in Statuses}

(***************************************************************************)
(* Provider searches: the search methods of MedicalScraper                  *)
(***************************************************************************)
Indexes(n) == [i \in 1..n |-> i - 1]       \* enumerate(): 0-based ordinals

ApiKeyName(p) ==
    CASE p = "perplexity" -> "PERPLEXITY_API_KEY"
      [] p = "exa"        -> "EXA_API_KEY"
      [] p = "tavily"     -> "TAVILY_API_KEY"

\* a missing key reported with the status of a failed request
ApiKeyCheckAs500(p, ks) ==
    IF p \in KeyProviders /\ p \notin ks
    THEN Raise(HTTPException(500, ApiKeyName(p) \o " not configured"))
    ELSE Return(TRUE)

\* the api_key check each keyed search starts with
ApiKeyCheck(p, ks) ==
    IF p \in KeyProviders /\ p \notin ks
    THEN Raise(HTTPException(400, ApiKeyName(p) \o " not configured"))
    ELSE Return(TRUE)

search_perplexity(reply) ==
    IF reply.kind = "transport"
    THEN Raise(HTTPException(500, "Perplexity request failed: " \o reply.msg))
    ELSE IF reply.status # 200
    THEN Raise(HTTPException(reply.status, "Perplexity API error"))
    ELSE IF reply.body.has_choices /\ reply.body.choices = <<>>
    THEN Raise(OtherException("IndexError", "list index out of range"))
    ELSE LET content == IF reply.body.has_choices THEN reply.body.choices[1] ELSE ""
             raw == reply.body.citations
             citations == [k \in 1..Len(raw) |-> Citation("pplx-" \o ToString(Indexes(Len(raw))[k]))]
         IN  Return(SearchResponse("perplexity", content, citations))

\* url.split("/") of the URLs the replies carry
UrlSplit(url) ==
    CASE url = "https://nejm.org/x"     -> <<"https:", "", "nejm.org", "x">>
      [] url = "https://cochrane.org/y" -> <<"https:", "", "cochrane.org", "y">>
      [] url = "nejm.org/x"             -> <<"nejm.org", "x">>
      [] url = ""                       -> <<"">>

\* source=r.get("url", "").split("/")[2] if r.get("url") else <default>:
\* whether the subscript is out of range for some result
SourceFails(results) ==
    \E k \in 1..Len(results) : results[k].url # "" /\ Len(UrlSplit(results[k].url)) < 3

search_exa(reply) ==
    IF reply.kind = "transport"
    THEN Raise(HTTPException(500, "Exa request failed: " \o reply.msg))
    ELSE IF reply.status # 200
    THEN Raise(HTTPException(reply.status, "Exa API error"))
    ELSE IF SourceFails(reply.body.results)
    THEN Raise(OtherException("IndexError", "list index out of range"))
    ELSE LET results == reply.body.results
             citations == [k \in 1..Len(results) |-> Citation("exa-" \o ToString(Indexes(Len(results))[k]))]
             blocks == [k \in 1..Len(results) |-> "## " \o results[k].title \o "\n" \o results[k].text]
         IN  Return(SearchResponse("exa", Join(blocks, Divider), citations))

search_tavily(reply) ==
    IF reply.kind = "transport"
    THEN Raise(HTTPException(500, "Tavily request failed: " \o reply.msg))
    ELSE IF reply.status # 200
    THEN Raise(HTTPException(reply.status, "Tavily API error"))
    ELSE IF SourceFails(reply.body.results)
    THEN Raise(OtherException("IndexError", "list index out of range"))
    ELSE LET results == reply.body.results
             citations == [k \in 1..Len(results) |-> Citation("tavily-" \o ToString(Indexes(Len(results))[k]))]
         IN  Return(SearchResponse("tavily", reply.body.answer, citations))

\* search_pubmed wraps everything raised inside it
PubmedFailed(msg) == Raise(HTTPException(500, "PubMed search failed: " \o msg))

\* an id search that goes on to the batch fetch whatever the id list holds
pubmed_esearch_always_fetches(reply) ==
    IF reply.kind = "transport" THEN [more |-> FALSE, out |-> PubmedFailed(reply.msg)]
    ELSE IF ~reply.json THEN [more |-> FALSE, out |-> PubmedFailed("JSONDecodeError")]
    ELSE [more |-> TRUE, ids |-> reply.body.idlist]

\* first half of search_pubmed: the esearch reply. "more" asks for the esummary call
pubmed_esearch(reply) ==
    IF reply.kind = "transport" THEN [more |-> FALSE, out |-> PubmedFailed(reply.msg)]
    ELSE IF ~reply.json THEN [more |-> FALSE, out |-> PubmedFailed("JSONDecodeError")]
    ELSE IF reply.body.idlist = <<>>
    THEN [more |-> FALSE, out |-> Return(SearchResponse("pubmed", "No results found.", <<>>))]
    ELSE [more |-> TRUE, ids |-> reply.body.idlist]

\* for pmid in ids: the ids that have an article in result_data, in order
RECURSIVE WithArticle(_, _)
WithArticle(ids, result_data) ==
    IF ids = <<>> THEN <<>>
    ELSE IF Head(ids) \in result_data
         THEN <<Head(ids)>> \o WithArticle(Tail(ids), result_data)
         ELSE WithArticle(Tail(ids), result_data)

PubmedCitationId(pmid) == "pubmed-" \o pmid

\* second half of search_pubmed: the esummary reply
pubmed_esummary(ids, reply) ==
    IF reply.kind = "transport" THEN PubmedFailed(reply.msg)
    ELSE IF ~reply.json THEN PubmedFailed("JSONDecodeError")
    ELSE LET found == WithArticle(ids, reply.body.result)
             citations == [k \in 1..Len(found) |-> Citation(PubmedCitationId(found[k]))]
             content_parts == [k \in 1..Len(found) |-> "**Article " \o found[k] \o "**\n -  ()"]
         IN  Return(SearchResponse("pubmed", Join(content_parts, "\n\n"), citations))

search_keyed(p, reply) ==
    CASE p = "perplexity" -> search_perplexity(reply)
      [] p = "exa"        -> search_exa(reply)
      [] p = "tavily"     -> search_tavily(reply)

KeyedReplies(p) ==
    CASE p = "perplexity" -> HttpReplies(PerplexityBodies)
      [] p = "exa"        -> HttpReplies(ExaBodies)
      [] p = "tavily"     -> HttpReplies(TavilyBodies)

(***************************************************************************)
(* Browser session (MedicalScraper.start_browser and the login methods)    *)
(***************************************************************************)
\* what the Playwright start-up does when start_browser has to launch:
\* it succeeds, or launch / new_context / new_page raises
StartOutcomes == {"ok", "launch", "new_context", "new_page"}

\* the start-ups a call can meet: nothing is started when Playwright is
\* missing or the browser is already there
StartEnv == IF playwright /\ ~browser THEN StartOutcomes ELSE {"ok"}

\* start_browser: its return value and the fields it leaves behind
start_browser(env) ==
    IF ~playwright
    THEN [ret |-> FALSE, browser |-> browser, context |-> context, page |-> page]
    ELSE IF browser
    THEN [ret |-> TRUE, browser |-> browser, context |-> context, page |-> page]
    ELSE CASE env = "ok" ->
                [ret |-> TRUE, browser |-> TRUE, context |-> TRUE, page |-> TRUE]
           [] env = "launch" ->
                [ret |-> FALSE, browser |-> browser, context |-> context, page |-> page]
           [] env = "new_context" ->
                [ret |-> FALSE, browser |-> TRUE, context |-> context, page |-> page]
           [] env = "new_page" ->
                [ret |-> FALSE, browser |-> TRUE, context |-> TRUE, page |-> page]

\* how the sign-in handshake on the page goes: it completes, page.goto raises,
\* no form selector matches, or the final wait_for_load_state times out
Handshakes == {"ok", "navigation", "selector", "timeout"}

\* login_uptodate: wait_for_selector raises when the selector never shows up
login_uptodate_try(hs) ==
    IF hs = "ok" THEN [ret |-> TRUE, flag |-> TRUE]
    ELSE [ret |-> FALSE, flag |-> logged_in_uptodate]

\* login_mksap: each selector loop passes over selectors that do not match
login_mksap_try(hs) ==
    IF hs \in {"ok", "selector"} THEN [ret |-> TRUE, flag |-> TRUE]
    ELSE [ret |-> FALSE, flag |-> logged_in_mksap]

\* why a login call did not complete its handshake ("none": it did)
LoginFailure(sb, hs) ==
    IF ~sb.ret THEN "browser"
    ELSE IF ~sb.page THEN "page"
    ELSE IF hs = "ok" THEN "none" ELSE hs

\* the model serves a login or an authenticated search between aggregate
\* requests: aggregate_search touches no field of the scraper and the session
\* handlers no local of aggregate_search, so their steps commute
\* and none once the lifespan has shut the application down
Serving == agg.pc = "idle" /\ last.op # "stop_browser"

login_uptodate ==
    /\ Serving
    /\ \E env \in StartEnv, hs \in Handshakes :
          LET sb == start_browser(env)
              \* self.page.goto on a missing page raises inside the try
              r == IF sb.ret /\ sb.page THEN login_uptodate_try(hs)
                   ELSE [ret |-> FALSE, flag |-> logged_in_uptodate]
          IN  /\ browser' = sb.browser /\ context' = sb.context /\ page' = sb.page
              /\ logged_in_uptodate' = r.flag
              /\ last' = [op |-> "login", target |-> "uptodate",
                          failure |-> LoginFailure(sb, hs), ret |-> r.ret]
    /\ UNCHANGED <<concurrent, keys, playwright, logged_in_mksap, agg>>

login_mksap ==
    /\ Serving
    /\ \E env \in StartEnv, hs \in Handshakes :
          LET sb == start_browser(env)
              r == IF sb.ret /\ sb.page THEN login_mksap_try(hs)
                   ELSE [ret |-> FALSE, flag |-> logged_in_mksap]
          IN  /\ browser' = sb.browser /\ context' = sb.context /\ page' = sb.page
              /\ logged_in_mksap' = r.flag
              /\ last' = [op |-> "login", target |-> "mksap",
                          failure |-> LoginFailure(sb, hs), ret |-> r.ret]
    /\ UNCHANGED <<concurrent, keys, playwright, logged_in_uptodate, agg>>

(***************************************************************************)
(* Authenticated searches (search_uptodate, search_mksap)                  *)
(***************************************************************************)
\* a hit on the search page: whether it carries a link
Hits == [url : {"", "/contents/topic"}]
\* the article page fetched after the search: goto raises, no main content
\* area is found, or the article text is there
Articles == {"navigation", "no_main", "article"}

Absolute(base, url) == IF url # "" THEN base \o url ELSE url

\* result.get_text() of a hit, cut to a snippet
Snippet == "snippet"

\* content_parts of search_uptodate: a hit without a title element is named
\* by its ordinal
UptodateBlock(k) == "**UpToDate Result " \o ToString(k) \o "**\n" \o Snippet
MksapBlock(k) == "**Section**\n" \o Snippet

UptodateCitations(hits) ==
    [k \in 1..Len(hits) |->
        [id |-> "uptodate-" \o ToString(Indexes(Len(hits))[k]),
         url |-> Absolute("https://www.uptodate.com", hits[k].url)]]

\* a search body that stopped before it read any hit
SearchFailed(exc, calls) ==
    [out |-> Raise(exc), calls |-> calls, hits |-> <<>>, fetched |-> "none"]

\* the article fetch left outside any try: its failure ends the search
uptodate_try_fetch_raises(nav, hits, article) ==
    IF ~page THEN SearchFailed(HTTPException(500, "UpToDate search failed: AttributeError"), <<>>)
    ELSE IF nav # "ok"
    THEN SearchFailed(HTTPException(500, "UpToDate search failed: " \o nav), <<"goto">>)
    ELSE LET citations == UptodateCitations(hits)
             content_parts == [k \in 1..Len(hits) |-> UptodateBlock(k)]
             fetch == citations # <<>> /\ citations[1].url # ""
             first_content == IF fetch /\ article = "article" THEN "full article" ELSE ""
             combined_content == IF first_content # "" THEN first_content
                                 ELSE Join(content_parts, Divider)
         IN  IF fetch /\ article = "navigation"
             THEN [out |-> Raise(HTTPException(500, "UpToDate search failed: " \o article)),
                   calls |-> <<"goto", "goto_article">>, hits |-> hits, fetched |-> article]
             ELSE [out |-> Return(SearchResponse("uptodate", combined_content, citations)),
                   calls |-> IF fetch THEN <<"goto", "goto_article">> ELSE <<"goto">>,
                   hits |-> hits,
                   fetched |-> IF fetch THEN article ELSE "none"]

\* an article fetch that looks for the first hit with a link
uptodate_try_any_url(nav, hits, article) ==
    IF ~page THEN SearchFailed(HTTPException(500, "UpToDate search failed: AttributeError"), <<>>)
    ELSE IF nav # "ok"
    THEN SearchFailed(HTTPException(500, "UpToDate search failed: " \o nav), <<"goto">>)
    ELSE LET citations == UptodateCitations(hits)
             content_parts == [k \in 1..Len(hits) |-> UptodateBlock(k)]
             fetch == \E k \in 1..Len(citations) : citations[k].url # ""
             first_content == IF fetch /\ article = "article" THEN "full article" ELSE ""
             combined_content == IF first_content # "" THEN first_content
                                 ELSE Join(content_parts, Divider)
         IN  [out |-> Return(SearchResponse("uptodate", combined_content, citations)),
              calls |-> IF fetch THEN <<"goto", "goto_article">> ELSE <<"goto">>,
              hits |-> hits,
              fetched |-> IF fetch THEN article ELSE "none"]

\* the body of search_uptodate after the browser is up. calls lists the page
\* navigations it issues, hits the hits it read, fetched how the fetch of the
\* first hit's article went ("none": no fetch was made)
uptodate_try(nav, hits, article) ==
    IF ~page THEN SearchFailed(HTTPException(500, "UpToDate search failed: AttributeError"), <<>>)
    ELSE IF nav # "ok"
    THEN SearchFailed(HTTPException(500, "UpToDate search failed: " \o nav), <<"goto">>)
    ELSE LET citations == UptodateCitations(hits)
             content_parts == [k \in 1..Len(hits) |-> UptodateBlock(k)]
             fetch == citations # <<>> /\ citations[1].url # ""
             first_content == IF fetch /\ article = "article" THEN "full article" ELSE ""
             combined_content == IF first_content # "" THEN first_content
                                 ELSE Join(content_parts, Divider)
         IN  [out |-> Return(SearchResponse("uptodate", combined_content, citations)),
              calls |-> IF fetch THEN <<"goto", "goto_article">> ELSE <<"goto">>,
              hits |-> hits,
              fetched |-> IF fetch THEN article ELSE "none"]

mksap_try(nav, hits) ==
    IF ~page THEN SearchFailed(HTTPException(500, "MKSAP search failed: AttributeError"), <<>>)
    ELSE IF nav # "ok"
    THEN SearchFailed(HTTPException(500, "MKSAP search failed: " \o nav), <<"goto">>)
    ELSE LET citations == [k \in 1..Len(hits) |->
                              [id |-> "mksap-" \o ToString(Indexes(Len(hits))[k]),
                               url |-> Absolute("https://mksap19.acponline.org", hits[k].url)]]
             content_parts == [k \in 1..Len(hits) |-> MksapBlock(k)]
         IN  [out |-> Return(SearchResponse("mksap", Join(content_parts, Divider), citations)),
              calls |-> <<"goto">>, hits |-> hits, fetched |-> "none"]

NotLoggedIn(name) ==
    Raise(HTTPException(401, "Not logged into " \o name \o ". Please login first."))
BrowserNotAvailable == Raise(HTTPException(500, "Browser not available"))

\* guards in the other order: the browser is brought up before the flag is read
search_guards_browser_first(flag, name, env) ==
    LET sb == start_browser(env)
    IN  IF ~flag
        THEN [go |-> FALSE, out |-> NotLoggedIn(name), calls |-> <<"start_browser">>,
              browser |-> sb.browser, context |-> sb.context, page |-> sb.page]
        ELSE [go |-> sb.ret, out |-> BrowserNotAvailable, calls |-> <<"start_browser">>,
              browser |-> sb.browser, context |-> sb.context, page |-> sb.page]

\* the guards a search starts with, in the code's order: the login flag,
\* then start_browser; "go" says whether the body runs
search_guards(flag, name, env) ==
    IF ~flag
    THEN [go |-> FALSE, out |-> NotLoggedIn(name), calls |-> <<>>,
          browser |-> browser, context |-> context, page |-> page]
    ELSE LET sb == start_browser(env)
         IN  [go |-> sb.ret, out |-> BrowserNotAvailable, calls |-> <<"start_browser">>,
              browser |-> sb.browser, context |-> sb.context, page |-> sb.page]

search_uptodate ==
    /\ Serving
    /\ \E env \in StartEnv, nav \in {"ok", "navigation"},
          hits \in SeqsUpTo(Hits, MaxHits), article \in Articles :
          LET g == search_guards(logged_in_uptodate, "UpToDate", env)
              \* the body runs on the page start_browser left
              b == IF g.page THEN uptodate_try(nav, hits, article)
                   ELSE SearchFailed(HTTPException(500, "UpToDate search failed: AttributeError"), <<>>)
          IN  /\ browser' = g.browser /\ context' = g.context /\ page' = g.page
              /\ last' = [op |-> "search", target |-> "uptodate",
                          flag |-> logged_in_uptodate,
                          before |-> session,
                          out |-> IF g.go THEN b.out ELSE g.out,
                          calls |-> IF g.go THEN g.calls \o b.calls ELSE g.calls,
                          hits |-> IF g.go THEN b.hits ELSE <<>>,
                          fetched |-> IF g.go THEN b.fetched ELSE "none"]
    /\ UNCHANGED <<concurrent, keys, playwright, logged_in_uptodate, logged_in_mksap, agg>>

search_mksap ==
    /\ Serving
    /\ \E env \in StartEnv, nav \in {"ok", "navigation"}, hits \in SeqsUpTo(Hits, MaxHits) :
          LET g == search_guards(logged_in_mksap, "MKSAP", env)
              b == IF g.page THEN mksap_try(nav, hits)
                   ELSE SearchFailed(HTTPException(500, "MKSAP search failed: AttributeError"), <<>>)
          IN  /\ browser' = g.browser /\ context' = g.context /\ page' = g.page
              /\ last' = [op |-> "search", target |-> "mksap",
                          flag |-> logged_in_mksap,
                          before |-> session,
                          out |-> IF g.go THEN b.out ELSE g.out,
                          calls |-> IF g.go THEN g.calls \o b.calls ELSE g.calls,
                          hits |-> IF g.go THEN b.hits ELSE <<>>,
                          fetched |-> IF g.go THEN b.fetched ELSE "none"]
    /\ UNCHANGED <<concurrent, keys, playwright, logged_in_uptodate, logged_in_mksap, agg>>

(***************************************************************************)
(* /search/aggregate                                                       *)
(***************************************************************************)
NoResponse == [none |-> TRUE]

IdleAggregate ==
    [pc |-> "idle", tasks |-> <<>>, i |-> 1, phase |-> "ready", ids |-> <<>>,
     results |-> <<>>, order |-> <<>>, errors |-> <<>>,
     started |-> {}, issued |-> <<>>, lookup |-> "none",
     upstream |-> <<>>, response |-> NoResponse]

\* a task list that adds Exa without looking at its key
AggregateTasksExaAlways(ks) ==
    <<"pubmed">>
        \o (IF "perplexity" \in ks THEN <<"perplexity">> ELSE <<>>)
        \o <<"exa">>
        \o (IF "tavily" \in ks THEN <<"tavily">> ELSE <<>>)

\* tasks = [...]: PubMed always, the keyed providers when their key is set
AggregateTasks(ks) ==
    <<"pubmed">>
        \o (IF "perplexity" \in ks THEN <<"perplexity">> ELSE <<>>)
        \o (IF "exa" \in ks THEN <<"exa">> ELSE <<>>)
        \o (IF "tavily" \in ks THEN <<"tavily">> ELSE <<>>)

\* a handler that names fastapi's exception only
CaughtHTTPOnly(e) == e.type = "HTTPException"

\* except Exception: every exception class the searches raise derives from it
Caught(e) == e.type \in {"HTTPException", "IndexError", "JSONDecodeError"}

\* a handler that drops the failure instead of recording it
CaptureDropsError(a, p, out) ==
    IF out.ok
    THEN [a EXCEPT !.results = p :> out.value @@ @,
                   !.order = IF p \in DOMAIN a.results THEN @ ELSE Append(@, p),
                   !.i = @ + 1, !.phase = "ready"]
    ELSE [a EXCEPT !.i = @ + 1, !.phase = "ready"]

\* a loop that stops at the first failure
CaptureStopsAtError(a, p, out) ==
    IF out.ok
    THEN [a EXCEPT !.results = p :> out.value @@ @,
                   !.order = IF p \in DOMAIN a.results THEN @ ELSE Append(@, p),
                   !.i = @ + 1, !.phase = "ready"]
    ELSE [a EXCEPT !.errors = p :> StrExc(out.exc) @@ @,
                   !.i = Len(a.tasks) + 1, !.phase = "ready"]

\* try: result = await task; results[provider] = ...  except Exception as e: errors[provider] = str(e)
Capture(a, p, out) ==
    IF out.ok
    THEN [a EXCEPT !.results = p :> out.value @@ @,
                   !.order = IF p \in DOMAIN a.results THEN @ ELSE Append(@, p),
                   !.i = @ + 1, !.phase = "ready"]
    ELSE IF Caught(out.exc)
    THEN [a EXCEPT !.errors = p :> StrExc(out.exc) @@ @,
                   !.i = @ + 1, !.phase = "ready"]
    ELSE [a EXCEPT !.pc = "failed", !.phase = "ready", !.response = out.exc]

\* str.title() of the provider names
Title(p) ==
    CASE p = "pubmed"     -> "Pubmed"
      [] p = "perplexity" -> "Perplexity"
      [] p = "exa"        -> "Exa"
      [] p = "tavily"     -> "Tavily"

Section(p, content) == "## From " \o Title(p) \o "\n\n" \o content

\* a merge that gives every successful provider a section
WithContentAll(order, results) == order

\* the keys of results whose content is truthy, in the dict's order
RECURSIVE WithContent(_, _)
WithContent(order, results) ==
    IF order = <<>> THEN <<>>
    ELSE IF results[Head(order)].content # ""
         THEN <<Head(order)>> \o WithContent(Tail(order), results)
         ELSE WithContent(Tail(order), results)

Reverse(seq) == [k \in 1..Len(seq) |-> seq[Len(seq) + 1 - k]]

\* a merge that walks the results last-settled first
ComposeReversed(a) ==
    LET order == Reverse(a.order)
        all_citations == Concat([k \in 1..Len(order) |-> a.results[order[k]].citations])
        with == WithContent(order, a.results)
        all_content == [k \in 1..Len(with) |-> Section(with[k], a.results[with[k]].content)]
    IN  [a EXCEPT !.pc = "done",
                  !.response = [sources |-> a.results,
                                source_order |-> a.order,
                                errors |-> a.errors,
                                sections |-> all_content,
                                combined_content |-> Join(all_content, Divider),
                                all_citations |-> all_citations]]

\* for provider, data in results.items(): ... and the returned dict
Compose(a) ==
    LET all_citations == Concat([k \in 1..Len(a.order) |-> a.results[a.order[k]].citations])
        with == WithContent(a.order, a.results)
        all_content == [k \in 1..Len(with) |-> Section(with[k], a.results[with[k]].content)]
    IN  [a EXCEPT !.pc = "done",
                  !.response = [sources |-> a.results,
                                source_order |-> a.order,
                                errors |-> a.errors,
                                sections |-> all_content,
                                combined_content |-> Join(all_content, Divider),
                                all_citations |-> all_citations]]

\* the first request a started search coroutine suspends on
FirstRequest(p) == IF p = "pubmed" THEN "esearch" ELSE "http"

\* the request a search opens with, by name: PubMed's id search, or the
\* provider's one POST
RequestName(p) == IF p = "pubmed" THEN "esearch" ELSE p

\* for provider, task in tasks: from task a.i on, up to the next suspension
\* point (the request of the task now awaited) or the return
RECURSIVE RunFrom(_, _)
RunFrom(a, ks) ==
    IF a.pc = "failed" THEN a
    ELSE IF a.i > Len(a.tasks) THEN Compose(a)
    ELSE LET p == a.tasks[a.i]
             chk == ApiKeyCheck(p, ks)
         IN  IF ~chk.ok
             THEN RunFrom(Capture(a, p, chk), ks)
             ELSE [a EXCEPT !.phase = FirstRequest(p), !.started = @ \cup {p},
                            !.issued = Append(@, RequestName(p))]

\* what the upstream answered, kept per provider: 0 stands for no HTTP reply
Seen(a, p, reply) ==
    LET s == IF reply.kind = "http" THEN reply.status ELSE 0
    IN  [a EXCEPT !.upstream =
            p :> ((IF p \in DOMAIN a.upstream THEN a.upstream[p] ELSE <<>>) \o <<s>>) @@ @]

\* what the id search handed back: no id list at all, an empty one, or ids
Lookup(reply) ==
    IF reply.kind = "http" /\ reply.json
    THEN (IF reply.body.idlist = <<>> THEN "empty" ELSE "ids")
    ELSE "none"

Awaited == agg.tasks[agg.i]

AggregateStart ==
    /\ Serving
    /\ agg' = RunFrom([IdleAggregate EXCEPT !.pc = "await", !.tasks = AggregateTasks(keys)], keys)
    /\ last' = [op |-> "aggregate"]
    /\ UNCHANGED <<concurrent, keys, playwright, session>>

EsearchReply ==
    /\ agg.pc = "await" /\ agg.phase = "esearch"
    /\ \E reply \in PubmedReplies(EsearchBodies) :
          LET r == pubmed_esearch(reply)
              a == [Seen(agg, "pubmed", reply) EXCEPT !.lookup = Lookup(reply)]
          IN  agg' = IF r.more
                     THEN [a EXCEPT !.phase = "esummary", !.ids = r.ids,
                                    !.issued = Append(@, "esummary")]
                     ELSE RunFrom(Capture(a, "pubmed", r.out), keys)
    /\ UNCHANGED <<concurrent, keys, playwright, session, last>>

EsummaryReply ==
    /\ agg.pc = "await" /\ agg.phase = "esummary"
    /\ \E reply \in PubmedReplies(EsummaryBodies) :
          agg' = RunFrom(Capture([Seen(agg, "pubmed", reply) EXCEPT !.ids = <<>>], "pubmed",
                                 pubmed_esummary(agg.ids, reply)), keys)
    /\ UNCHANGED <<concurrent, keys, playwright, session, last>>

HttpReply ==
    /\ agg.pc = "await" /\ agg.phase = "http"
    /\ \E reply \in KeyedReplies(Awaited) :
          agg' = RunFrom(Capture(Seen(agg, Awaited, reply), Awaited,
                                 search_keyed(Awaited, reply)), keys)
    /\ UNCHANGED <<concurrent, keys, playwright, session, last>>

\* the response (or the exception) goes back to the client: the request's
\* locals are gone
AggregateReturn ==
    /\ agg.pc \in {"done", "failed"}
    /\ agg' = IdleAggregate
    /\ UNCHANGED <<concurrent, keys, playwright, session, last>>

(***************************************************************************)
(* The single-provider endpoints /search/<provider>: one call of a search  *)
(* method whose HTTPException goes to the caller as the response status.   *)
(* "class" records what made the call fail, read off its inputs.           *)
(***************************************************************************)
\* upstream statuses a caller of one endpoint may be handed besides Statuses
ClientErrors == {400, 401}
\* success replies whose one result has a URL without a scheme
Hostless(p) ==
    CASE p = "perplexity" -> {}
      [] p = "exa" ->
            {Http(200, TRUE, [results |-> <<[title |-> "", url |-> "nejm.org/x", text |-> ""]>>])}
      [] p = "tavily" ->
            {Http(200, TRUE, [answer |-> "answer",
                              results |-> <<[title |-> "", url |-> "nejm.org/x", content |-> ""]>>])}

EndpointReplies(p) ==
    KeyedReplies(p) \cup {Http(s, FALSE, NoBody) : s \in ClientErrors} \cup Hostless(p)

KeyedOutcome(p, ks, reply) ==
    LET chk == ApiKeyCheck(p, ks)
    IN  [op |-> "endpoint", provider |-> p,
         class |-> IF ~chk.ok THEN "config"
                   ELSE IF reply.kind = "transport" THEN "transport"
                   ELSE IF reply.status # 200 THEN "upstream"
                   ELSE "none",
         status |-> IF chk.ok /\ reply.kind = "http" THEN reply.status ELSE 0,
         out |-> IF chk.ok THEN search_keyed(p, reply) ELSE chk]

\* search_pubmed as one call: the esearch reply r1, then the esummary reply r2
PubmedOutcome(r1, r2) ==
    LET e == pubmed_esearch(r1)
        replies == IF e.more THEN <<r1, r2>> ELSE <<r1>>
        failed == {k \in 1..Len(replies) : replies[k].kind = "http" /\ replies[k].status # 200}
    IN  [op |-> "endpoint", provider |-> "pubmed",
         class |-> IF \E k \in 1..Len(replies) : replies[k].kind = "transport" THEN "transport"
                   ELSE IF failed # {} THEN "upstream"
                   ELSE "none",
         status |-> IF failed = {} THEN 0
                    ELSE replies[CHOOSE k \in failed : \A j \in failed : k <= j].status,
         out |-> IF e.more THEN pubmed_esummary(e.ids, r2) ELSE e.out]

\* what one call of search_pubmed can come to, over the replies it may get
PubmedOutcomes ==
    {PubmedOutcome(r1, r2) : r1 \in PubmedReplies(EsearchBodies),
                             r2 \in PubmedReplies(EsummaryBodies)}

search_keyed_endpoint ==
    /\ Serving
    /\ \E p \in KeyProviders : \E reply \in EndpointReplies(p) :
          last' = KeyedOutcome(p, keys, reply)
    /\ UNCHANGED <<concurrent, keys, playwright, browser, context, page,
                   logged_in_uptodate, logged_in_mksap, agg>>

search_pubmed_endpoint ==
    /\ Serving
    /\ \E o \in PubmedOutcomes : last' = o
    /\ UNCHANGED <<concurrent, keys, playwright, browser, context, page,
                   logged_in_uptodate, logged_in_mksap, agg>>

(***************************************************************************)
(* /scrape and the shutdown half of lifespan                                *)
(***************************************************************************)
scrape_url ==
    /\ Serving
    /\ \E env \in StartEnv, nav \in {"ok", "navigation"} :
          LET sb == start_browser(env)
              out == IF ~sb.ret THEN BrowserNotAvailable
                     ELSE IF ~sb.page
                     THEN Raise(HTTPException(500, "Scraping failed: AttributeError"))
                     ELSE IF nav # "ok"
                     THEN Raise(HTTPException(500, "Scraping failed: " \o nav))
                     ELSE Return([content |-> "markdown"])
          IN  /\ browser' = sb.browser /\ context' = sb.context /\ page' = sb.page
              /\ last' = [op |-> "scrape", out |-> out]
    /\ UNCHANGED <<concurrent, keys, playwright, logged_in_uptodate, logged_in_mksap, agg>>

\* a shutdown that also forgets the logins
stop_browser_resets ==
    /\ Serving
    /\ browser' = FALSE /\ context' = FALSE /\ page' = FALSE
    /\ logged_in_uptodate' = FALSE /\ logged_in_mksap' = FALSE
    /\ last' = [op |-> "stop_browser"]
    /\ UNCHANGED <<concurrent, keys, playwright, agg>>

\* lifespan's shutdown: runs once, after the requests in flight have ended
stop_browser ==
    /\ Serving
    /\ browser' = FALSE /\ context' = FALSE /\ page' = FALSE
    /\ last' = [op |-> "stop_browser"]
    /\ UNCHANGED <<concurrent, keys, playwright, logged_in_uptodate, logged_in_mksap, agg>>

(***************************************************************************)
(* Two requests on the one page. The event loop runs a coroutine up to its *)
(* next await; the steps below are the stretches of login_uptodate,        *)
(* login_mksap, search_uptodate and search_mksap between their awaits on   *)
(* self.page. start_browser is taken in one stretch.                       *)
(***************************************************************************)
Requests == {"a", "b"}
Query(r) == "query " \o r

Blank == [kind |-> "blank", target |-> "", query |-> ""]
SearchPage(t, q) == [kind |-> "results", target |-> t, query |-> q]
LoginPage(t) == [kind |-> "login", target |-> t, query |-> ""]

IdleRequest ==
    [pc |-> "idle", op |-> "", target |-> "", query |-> "", read |-> Blank, ret |-> ""]

SiteName(t) == IF t = "uptodate" THEN "UpToDate" ELSE "MKSAP"
LoggedIn(t) == IF t = "uptodate" THEN logged_in_uptodate ELSE logged_in_mksap

\* the document a request navigated to
Own(r) ==
    IF inflight[r].op = "search" THEN SearchPage(inflight[r].target, inflight[r].query)
    ELSE LoginPage(inflight[r].target)

\* a page of the request's own
page_content_own(r) == Own(r)

\* await self.page.content(): the document the one page displays now
page_content(r) == displayed

\* the guards of a search, up to its first await on the page
search_begin(r) ==
    /\ inflight[r].pc = "idle"
    /\ \E t \in Targets, env \in StartEnv :
          LET g == search_guards(LoggedIn(t), SiteName(t), env)
              go == g.go /\ g.page
          IN  /\ browser' = g.browser /\ context' = g.context /\ page' = g.page
              /\ inflight' = [inflight EXCEPT ![r] =
                    [pc |-> IF go THEN "goto" ELSE "done",
                     op |-> "search", target |-> t, query |-> Query(r), read |-> Blank,
                     ret |-> IF go THEN ""
                             ELSE IF g.go THEN "500"
                             ELSE ToString(g.out.exc.status_code)]]
    /\ UNCHANGED <<keys, playwright, logged_in_uptodate, logged_in_mksap, last, agg, displayed>>

\* await self.page.goto(search_url)
search_goto(r) ==
    /\ inflight[r].pc = "goto" /\ inflight[r].op = "search"
    /\ \E nav \in {"ok", "navigation"} :
          IF nav = "ok"
          THEN /\ displayed' = SearchPage(inflight[r].target, inflight[r].query)
               /\ inflight' = [inflight EXCEPT ![r].pc = "content"]
          ELSE /\ displayed' = displayed
               /\ inflight' = [inflight EXCEPT ![r].pc = "done", ![r].ret = "500"]
    /\ UNCHANGED <<keys, playwright, session, last, agg>>

\* content_html = await self.page.content(), after the waits, and the parse
search_content(r) ==
    /\ inflight[r].pc = "content"
    /\ inflight' = [inflight EXCEPT ![r].pc = "done", ![r].read = page_content(r),
                                    ![r].ret = "200"]
    /\ UNCHANGED <<keys, playwright, session, last, agg, displayed>>

login_begin(r) ==
    /\ inflight[r].pc = "idle"
    /\ \E t \in Targets, env \in StartEnv :
          LET sb == start_browser(env)
              go == sb.ret /\ sb.page
          IN  /\ browser' = sb.browser /\ context' = sb.context /\ page' = sb.page
              /\ inflight' = [inflight EXCEPT ![r] =
                    [pc |-> IF go THEN "goto" ELSE "done",
                     op |-> "login", target |-> t, query |-> "", read |-> Blank,
                     ret |-> IF go THEN "" ELSE "False"]]
    /\ UNCHANGED <<keys, playwright, logged_in_uptodate, logged_in_mksap, last, agg, displayed>>

\* await self.page.goto(login_url)
login_goto(r) ==
    /\ inflight[r].pc = "goto" /\ inflight[r].op = "login"
    /\ \E nav \in {"ok", "navigation"} :
          IF nav = "ok"
          THEN /\ displayed' = LoginPage(inflight[r].target)
               /\ inflight' = [inflight EXCEPT ![r].pc = "fill"]
          ELSE /\ displayed' = displayed
               /\ inflight' = [inflight EXCEPT ![r].pc = "done", ![r].ret = "False"]
    /\ UNCHANGED <<keys, playwright, session, last, agg>>

\* the form is looked up on whatever the page displays after the waits
login_fill(r) ==
    /\ inflight[r].pc = "fill"
    /\ LET t == inflight[r].target
           hs == IF displayed = LoginPage(t) THEN "ok" ELSE "selector"
           try == IF t = "uptodate" THEN login_uptodate_try(hs) ELSE login_mksap_try(hs)
       IN  /\ logged_in_uptodate' = IF t = "uptodate" THEN try.flag ELSE logged_in_uptodate
           /\ logged_in_mksap' = IF t = "mksap" THEN try.flag ELSE logged_in_mksap
           /\ inflight' = [inflight EXCEPT ![r].pc = "done", ![r].read = displayed,
                                            ![r].ret = IF try.ret THEN "True" ELSE "False"]
    /\ UNCHANGED <<keys, playwright, browser, context, page, last, agg, displayed>>

\* the response leaves; the slot takes the next request
respond(r) ==
    /\ inflight[r].pc = "done"
    /\ inflight' = [inflight EXCEPT ![r] = IdleRequest]
    /\ UNCHANGED <<keys, playwright, session, last, agg, displayed>>

NoCall == [op |-> "none"]

Init ==
    /\ keys \in SUBSET KeyProviders
    /\ playwright \in BOOLEAN
    /\ browser = FALSE /\ context = FALSE /\ page = FALSE
    /\ logged_in_uptodate = FALSE /\ logged_in_mksap = FALSE
    /\ last = NoCall
    /\ agg = IdleAggregate
    /\ displayed = Blank
    /\ inflight = [r \in Requests |-> IdleRequest]

Next ==
    \/ AggregateStart
    \/ EsearchReply
    \/ EsummaryReply
    \/ HttpReply
    \/ AggregateReturn
    \/ login_uptodate
    \/ login_mksap
    \/ search_uptodate
    \/ search_mksap
    \/ search_keyed_endpoint
    \/ search_pubmed_endpoint
    \/ scrape_url
    \/ stop_browser

Spec == Init /\ [][Next]_vars

\* the process with every key set and Playwright installed, serving logins
\* and authenticated searches that overlap
InitPage == Init /\ keys = KeyProviders /\ playwright

NextPage ==
    \E r \in Requests :
        \/ search_begin(r)
        \/ search_goto(r)
        \/ search_content(r)
        \/ login_begin(r)
        \/ login_goto(r)
        \/ login_fill(r)
        \/ respond(r)

SpecPage == InitPage /\ [][NextPage]_vars

(***************************************************************************)
(* Properties                                                              *)
(***************************************************************************)
Range(f) == {f[k] : k \in DOMAIN f}
Done == agg.pc = "done"
Sources == DOMAIN agg.response.sources
Errors == DOMAIN agg.response.errors
Attempted == Range(agg.tasks)

\* C1: in every aggregate response the keys of sources and errors are
\* disjoint, together they are exactly the providers attempted, and pubmed
\* is among them.
C1_Partition ==
    Done => /\ Sources \cap Errors = {}
            /\ Sources \cup Errors = Attempted
            /\ "pubmed" \in Sources \cup Errors

\* a response with four providers attempted, some in each map
C1_Witness ==
    Done /\ Cardinality(Attempted) = 4 /\ Sources # {} /\ Errors # {}

\* C2: the aggregate call never fails, whichever attempted providers fail
\* and however (status, transport, a parsing exception): a response is
\* composed and each failure is a message string in errors.
C2_NeverFails ==
    /\ agg.pc # "failed"
    /\ Done => /\ \A p \in Errors : agg.response.errors[p] \in STRING
               /\ \A p \in Attempted \ Sources : p \in Errors

\* every attempted provider failed at once, one of them with an exception
\* that is not an HTTPException
C2_Witness ==
    /\ Done /\ Cardinality(Attempted) = 4 /\ Sources = {}
    /\ agg.response.errors["perplexity"] = "list index out of range"

C4_Isolation ==
    /\ Done => \A p \in Attempted :
                  p \in agg.started /\ p \in Sources \cup Errors
    /\ agg.pc = "await" =>
          /\ agg.response = NoResponse
          /\ agg.tasks[agg.i] \in agg.started
          /\ \A k \in 1..(agg.i - 1) :
                agg.tasks[k] \in DOMAIN agg.results \cup DOMAIN agg.errors

\* the first provider failed and the three after it were still run, two of
\* them to success
C4_Witness ==
    /\ Done /\ agg.tasks = <<"pubmed", "perplexity", "exa", "tavily">>
    /\ "pubmed" \in Errors /\ "exa" \in Errors
    /\ Sources = {"perplexity", "tavily"}

\* C5 as stated: all attempted providers' requests are launched together:
\* whenever the handler waits for a provider to settle, the request of every
\* attempted provider has already been started.
C5_LaunchedTogether ==
    agg.pc = "await" => Attempted \subseteq agg.started

\* the fixed attempt order of aggregate_search
AttemptOrder == <<"pubmed", "perplexity", "exa", "tavily">>
InAttemptOrder(S) == SelectSeq(AttemptOrder, LAMBDA p : p \in S)

\* C6: the provider sections of combined_content and the per-provider blocks
\* of all_citations follow the fixed attempt order pubmed, perplexity, exa,
\* tavily, restricted to the successful providers (a section is written for
\* the successful providers whose content is not empty).
C6_AttemptOrder ==
    Done =>
        LET src == agg.response.sources
            cited == InAttemptOrder(Sources)
            shown == InAttemptOrder({p \in Sources : src[p].content # ""})
        IN  /\ agg.response.all_citations
                  = Concat([k \in 1..Len(cited) |-> src[cited[k]].citations])
            /\ agg.response.combined_content
                  = Join([k \in 1..Len(shown) |-> Section(shown[k], src[shown[k]].content)],
                         Divider)

\* three providers succeeded with content, two of them with citations
C6_Witness ==
    /\ Done /\ Cardinality({p \in Sources : agg.response.sources[p].content # ""}) >= 3
    /\ Cardinality({p \in Sources : agg.response.sources[p].citations # <<>>}) >= 2

Distinct(seq) == \A j, k \in 1..Len(seq) : j # k => seq[j] # seq[k]
Ids(citations) == [k \in 1..Len(citations) |-> citations[k].id]

\* C7 as stated: the citation ids of every successful provider result are
\* pairwise distinct, and so are all the ids of all_citations, for every
\* upstream payload.
C7_UniqueIds ==
    Done => /\ \A p \in Sources : Distinct(Ids(agg.response.sources[p].citations))
            /\ Distinct(Ids(agg.response.all_citations))

Flag(target) == IF target = "uptodate" THEN logged_in_uptodate ELSE logged_in_mksap

\* C8 as stated: a login whose handshake fails in any way (no browser,
\* navigation failure, no selector matches, timeout) returns false and the
\* target's authenticated flag is false afterwards.
C8_FailedLogin ==
    (last.op = "login" /\ last.failure # "none") =>
        (last.ret = FALSE /\ Flag(last.target) = FALSE)

\* C9: an authenticated search for a target whose flag is false fails with a
\* 401 before the browser is started or any page navigation is issued, and
\* leaves the browser fields and both flags as they were.
C9_Unauthorized ==
    (last.op = "search" /\ ~last.flag) =>
        /\ ~last.out.ok /\ last.out.exc.status_code = 401
        /\ last.calls = <<>>
        /\ session = last.before

\* an unauthorized mksap search at a time when a browser start would have
\* launched Playwright, the other target being logged in or not
C9_Witness ==
    /\ last.op = "search" /\ last.target = "mksap" /\ ~last.flag
    /\ playwright /\ ~browser

\* a non-success status among the upstream's replies to provider p
NonSuccess(p) == \E k \in 1..Len(agg.upstream[p]) : agg.upstream[p][k] \notin {0, 200}

\* C10 as stated: a provider whose upstream answers one of its calls with a
\* non-success HTTP status fails: inside aggregate it is recorded in errors,
\* never in sources.
C10_NonSuccessFails ==
    Done => \A p \in DOMAIN agg.upstream :
               NonSuccess(p) => (p \in Errors /\ p \notin Sources)

Count(seq, x) == Cardinality({k \in 1..Len(seq) : seq[k] = x})

\* C11: when PubMed's id lookup returns an empty id list the search returns
\* the successful result "No results found." with no citations, it is not an
\* error, and the batch metadata fetch is never issued; when the list is not
\* empty exactly one batch fetch is issued.
C11_EmptyShortCircuit ==
    /\ agg.lookup = "empty" =>
          /\ Count(agg.issued, "esummary") = 0
          /\ "pubmed" \in DOMAIN agg.results /\ "pubmed" \notin DOMAIN agg.errors
          /\ agg.results["pubmed"] = SearchResponse("pubmed", "No results found.", <<>>)
    /\ agg.lookup = "ids" => Count(agg.issued, "esummary") = 1

\* an aggregate response whose PubMed id lookup came back empty with status 200
C11_Witness ==
    Done /\ agg.lookup = "empty" /\ agg.upstream["pubmed"] = <<200>>

AuthSearch == last.op = "search" /\ last.target \in Targets
SnippetList(target, hits) ==
    Join([k \in 1..Len(hits) |-> IF target = "uptodate" THEN UptodateBlock(k) ELSE MksapBlock(k)],
         Divider)

\* C12: when an authenticated search has hits and the fetch of the full
\* article fails (the navigation raises, or no main content area is found),
\* the search still returns a result, whose content is the snippet blocks of
\* the hits joined by the divider.
C12_Fallback ==
    (AuthSearch /\ last.hits # <<>> /\ last.fetched \in {"navigation", "no_main"}) =>
        /\ last.out.ok
        /\ last.out.value.content = SnippetList(last.target, last.hits)
        /\ Len(last.out.value.citations) = Len(last.hits)

\* two hits, the article of the first could not be loaded
C12_Witness ==
    AuthSearch /\ Len(last.hits) = 2 /\ last.fetched = "navigation" /\ last.out.ok

HasUrl(hits) == \E k \in 1..Len(hits) : hits[k].url # ""

\* C14 as stated: for both targets, a search with hits of which at least one
\* carries a URL makes exactly one additional fetch and, when that succeeds,
\* returns the article as content; also when only a later hit has a URL.
C14_Original ==
    (AuthSearch /\ last.hits # <<>> /\ HasUrl(last.hits)) =>
        /\ Count(last.calls, "goto_article") = 1
        /\ last.fetched = "article" => last.out.value.content = "full article"

\* C14 amended: search_uptodate makes exactly one additional fetch when its
\* first hit carries a URL, and the article, when loaded, is the content;
\* when the first hit has no URL it makes none and returns the snippets,
\* whatever the later hits carry. search_mksap never makes one.
C14_FirstHitOnly ==
    (AuthSearch /\ last.hits # <<>>) =>
        /\ last.out.ok
        /\ IF last.target = "uptodate" /\ last.hits[1].url # ""
           THEN /\ Count(last.calls, "goto_article") = 1
                /\ last.fetched = "article" => last.out.value.content = "full article"
           ELSE /\ Count(last.calls, "goto_article") = 0
                /\ last.out.value.content = SnippetList(last.target, last.hits)

\* an UpToDate search whose first hit has no URL and whose second has one
C14_Witness ==
    /\ AuthSearch /\ last.target = "uptodate" /\ Len(last.hits) = 2
    /\ last.hits[1].url = "" /\ last.hits[2].url # ""

Classes == {"config", "unauthorized", "upstream", "transport"}

\* every failed single-provider search of the four classes, as the class and
\* the status code its caller is handed
Failures ==
    LET outcomes ==
            UNION {{KeyedOutcome(p, ks, r) : ks \in SUBSET KeyProviders,
                                             r \in EndpointReplies(p)} : p \in KeyProviders}
    IN  {[class |-> o.class, code |-> o.out.exc.status_code] :
            o \in {x \in outcomes : ~x.out.ok /\ x.class \in Classes}}
        \cup {[class |-> o.class, code |-> o.out.exc.status_code] :
                o \in {x \in PubmedOutcomes : ~x.out.ok /\ x.class \in Classes}}
        \cup {[class |-> "unauthorized", code |-> NotLoggedIn(n).exc.status_code] :
                n \in {"UpToDate", "MKSAP"}}

\* the failure of the last single-provider search, if it failed
LastFailure ==
    IF last.op = "endpoint" /\ ~last.out.ok /\ last.class \in Classes
    THEN [class |-> last.class, code |-> last.out.exc.status_code]
    ELSE IF last.op = "search" /\ ~last.flag
    THEN [class |-> "unauthorized", code |-> last.out.exc.status_code]
    ELSE [class |-> "none", code |-> 0]

\* C13 as stated: the status code of a failed single-provider search tells its
\* class: no failure of a different class carries the same status code.
C13_Original ==
    LastFailure.class \in Classes =>
        \A g \in Failures : g.class # LastFailure.class => g.code # LastFailure.code

\* C13 amended: a configuration failure is 400, an unauthorized search 401, a
\* transport failure 500, and these three never share a code; an upstream
\* failure of a keyed provider carries the upstream's own status, whatever it
\* is, and a PubMed failure of either kind is 500.
C13_Classification ==
    LET f == LastFailure
    IN  /\ f.class = "config" => f.code = 400
        /\ f.class = "unauthorized" => f.code = 401
        /\ f.class = "transport" => f.code = 500
        /\ f.class = "upstream" =>
              f.code = IF last.provider = "pubmed" THEN 500 ELSE last.status
        /\ f.class \in Classes \ {"upstream"} =>
              \A g \in Failures :
                  g.class \notin {"upstream", f.class} => g.code # f.code

\* an upstream failure handed on with the status of a transport failure
C13_Witness ==
    /\ last.op = "endpoint" /\ last.provider = "exa"
    /\ last.class = "upstream" /\ last.status = 500 /\ LastFailure.code = 500

\* the successful providers of a response whose content is not empty
NonEmpty == {p \in Sources : agg.response.sources[p].content # ""}

\* C15 as stated: combined_content has one headed section per successful
\* provider, as many as sources has keys, an empty content included.
C15_Original ==
    Done => Len(agg.response.sections) = Cardinality(Sources)

\* C15 amended: combined_content is the divider-joined list of one
\* "## From <Provider>" section per successful provider whose content is not
\* empty; a successful provider with empty content has no section.
C15_Sections ==
    Done => /\ Len(agg.response.sections) = Cardinality(NonEmpty)
            /\ \A p \in NonEmpty :
                  Count(agg.response.sections,
                        Section(p, agg.response.sources[p].content)) = 1
            /\ agg.response.combined_content = Join(agg.response.sections, Divider)

\* a response with a successful provider of empty content beside one with content
C15_Witness ==
    Done /\ NonEmpty # {} /\ Sources \ NonEmpty # {}

\* C16: each target's flag starts false; it changes only from false to true,
\* and only in a login for that target that returns true; a login that
\* returns true leaves its flag true; a login for the other target, a search,
\* a scrape, an aggregate step and stopping the browser change neither flag.
C16_FlagFrame ==
    /\ ~logged_in_uptodate /\ ~logged_in_mksap
    /\ [][/\ logged_in_uptodate' # logged_in_uptodate =>
                /\ login_uptodate /\ last'.ret
                /\ ~logged_in_uptodate /\ logged_in_uptodate'
          /\ logged_in_mksap' # logged_in_mksap =>
                /\ login_mksap /\ last'.ret
                /\ ~logged_in_mksap /\ logged_in_mksap'
          /\ (login_uptodate /\ last'.ret) => logged_in_uptodate'
          /\ (login_mksap /\ last'.ret) => logged_in_mksap'
          /\ (logged_in_uptodate => logged_in_uptodate')
          /\ (logged_in_mksap => logged_in_mksap')]_vars

\* the browser was stopped after a login and the flag still stands
C16_Witness ==
    last.op = "stop_browser" /\ logged_in_uptodate /\ ~logged_in_mksap /\ ~browser

\* C18: a keyed search (grounded-answer, semantic, keyword) that is handed a
\* success-status reply with a well-formed JSON body returns a result,
\* whichever of the expected fields are absent or empty.
C18_DegradationNeverFails ==
    (/\ last.op = "endpoint" /\ last.provider \in KeyProviders
     /\ last.class = "none" /\ last.status = 200) => last.out.ok

\* C17: requests in flight share the one page: what a search reads after its
\* waits is the document the page displays at that moment, the one the last
\* navigation of any request loaded, so with two requests in flight a search
\* can come back with the results page of the other request's query.
C17_SharedPage ==
    [][\A r \in Requests :
          (inflight[r].pc = "content" /\ inflight'[r].pc = "done") =>
              /\ inflight'[r].read = displayed
              /\ displayed.kind \in {"results", "login"}]_vars

\* a search that succeeded on the results page of the other request's query
C17_Witness ==
    \E r \in Requests :
        /\ inflight[r].pc = "done" /\ inflight[r].op = "search" /\ inflight[r].ret = "200"
        /\ inflight[r].read.kind = "results"
        /\ inflight[r].read.query # inflight[r].query

====
